---- MODULE Spec2Model ----
(***************************************************************************)
(* paper-feed (get_RSS.py): the fetch -> merge -> emit pipeline.           *)
(*                                                                         *)
(* One run of main() loads the previously emitted document as history,     *)
(* fetches every configured source, keeps the unseen entries that match    *)
(* the keyword queries, sorts by publication time, truncates to MAX_ITEMS  *)
(* and overwrites the output document.  The document is the only state     *)
(* that survives from one run to the next.                                 *)
(*                                                                         *)
(* Text (titles, summaries, journal names, query lines) is a sequence of   *)
(* one-character strings, so that lower(), split('AND'), strip(), the      *)
(* substring test and the "[journal] title" prefix are computed, not       *)
(* assumed.  Identifiers and links are opaque strings.  Time is counted in *)
(* ticks of the clock behind datetime.now(); a struct_time and a pubDate   *)
(* hold whole seconds only.                                                *)
(***************************************************************************)
EXTENDS Integers, Sequences, FiniteSets, TLC

(***************************************************************************)
(* Bounds of the model.                                                    *)
(***************************************************************************)
\* Window size.  get_RSS.py:11 sets MAX_ITEMS = 200; the model keeps the
\* same truncation with a window small enough to overflow.
MAX_ITEMS == 2
\* Resolution of datetime.now() relative to the whole seconds of a
\* struct_time / RFC-822 pubDate.
TicksPerSecond == 2
\* Number of runs of main() a behaviour contains.
MaxRuns == 2

\* retries=3 default of parse_rss
RETRIES == 3
\* time.sleep(2) between attempts
BACKOFF == 2

\* A missing struct_time (entry.get(...) returned None).
NoTime == -1
\* A missing 'id' key of a parsed entry.
NoId == "NoId"

(***************************************************************************)
(* Python string operations, on sequences of one-character strings.        *)
(***************************************************************************)
\* str.lower() on one character
LowerChar(c) ==
    CASE c = "A" -> "a"
      [] c = "N" -> "n"
      [] c = "D" -> "d"
      [] c = "Q" -> "q"
      [] c = "C" -> "c"
      [] c = "G" -> "g"
      [] OTHER -> c

\* str.lower()
Lower(s) == [i \in 1..Len(s) |-> LowerChar(s[i])]

\* k in t   (Python substring test; the empty string is in every string)
Contains(t, k) ==
    \E i \in 0..(Len(t) - Len(k)) : SubSeq(t, i + 1, i + Len(k)) = k

\* position of the first occurrence of sep in s at or after index i; 0 if none
RECURSIVE FindFrom(_, _, _)
FindFrom(s, sep, i) ==
    IF i + Len(sep) - 1 > Len(s) THEN 0
    ELSE IF SubSeq(s, i, i + Len(sep) - 1) = sep THEN i
    ELSE FindFrom(s, sep, i + 1)

\* str.split(sep) for a non-empty separator: left to right, non-overlapping,
\* empty pieces kept
RECURSIVE Split(_, _)
Split(s, sep) ==
    LET p == FindFrom(s, sep, 1)
    IN  IF p = 0 THEN <<s>>
        ELSE <<SubSeq(s, 1, p - 1)>> \o Split(SubSeq(s, p + Len(sep), Len(s)), sep)

\* str.strip(): leading and trailing whitespace removed
RECURSIVE LStrip(_)
LStrip(s) == IF s # <<>> /\ Head(s) = " " THEN LStrip(Tail(s)) ELSE s

RECURSIVE RStrip(_)
RStrip(s) ==
    IF s # <<>> /\ s[Len(s)] = " " THEN RStrip(SubSeq(s, 1, Len(s) - 1)) ELSE s

Strip(s) == RStrip(LStrip(s))

\* the separator of query.split('AND')
AND_TOKEN == <<"A", "N", "D">>

(***************************************************************************)
(* match_entry (get_RSS.py:106-121)                                        *)
(***************************************************************************)
\* text_to_search = (entry['title'] + " " + entry['summary']).lower()
TextToSearch(entry) == Lower(entry.title \o <<" ">> \o entry.summary)

\* keywords = [k.strip().lower() for k in query.split('AND')]
Keywords(query) ==
    LET parts == Split(query, AND_TOKEN)
    IN  [i \in 1..Len(parts) |-> Lower(Strip(parts[i]))]

\* the inner loop satisfied by one keyword instead of all
AnyKeywordIn(text, keywords, k) ==
    \E i \in k..Len(keywords) : Contains(text, keywords[i])

\* the inner loop: match stays True only if every keyword is in the text
RECURSIVE AllKeywordsIn(_, _, _)
AllKeywordsIn(text, keywords, k) ==
    IF k > Len(keywords) THEN TRUE
    ELSE IF ~Contains(text, keywords[k]) THEN FALSE
    ELSE AllKeywordsIn(text, keywords, k + 1)

\* the outer loop: return True at the first query whose keywords all match
RECURSIVE MatchFrom(_, _, _)
MatchFrom(text, qs, q) ==
    IF q > Len(qs) THEN FALSE
    ELSE IF AllKeywordsIn(text, Keywords(qs[q]), 1) THEN TRUE
    ELSE MatchFrom(text, qs, q + 1)

match_entry(entry, qs) == MatchFrom(TextToSearch(entry), qs, 1)

(***************************************************************************)
(* convert_struct_time_to_datetime (get_RSS.py:41-45)                      *)
(*                                                                         *)
(* A struct_time counts whole seconds; the datetime it becomes counts      *)
(* clock ticks.  A missing struct_time becomes the reading `now` of the    *)
(* clock.                                                                  *)
(***************************************************************************)
\* a missing struct_time taken for the epoch
convert_struct_time_to_datetime_Epoch(struct_time, now) ==
    IF struct_time = NoTime THEN 0 ELSE struct_time * TicksPerSecond

convert_struct_time_to_datetime(struct_time, now) ==
    IF struct_time = NoTime THEN now ELSE struct_time * TicksPerSecond

\* pubDate = item['pub_date'] as the document stores it: an RFC-822 date
\* has no field below the second (get_RSS.py:147, 160-161)
PubDateOf(pub_date) == pub_date \div TicksPerSecond

(***************************************************************************)
(* parse_rss, the body of one successful attempt (get_RSS.py:52-69)        *)
(***************************************************************************)
\* pub_struct = entry.get('published_parsed', entry.get('updated_parsed'))
PubStruct(raw) == IF raw.published # NoTime THEN raw.published ELSE raw.updated

\* 'id': entry.get('id', entry.get('link', ''))
IdOf(idField, link) == IF idField # NoId THEN idField ELSE link

\* number of entries among the first n of a feed that make
\* convert_struct_time_to_datetime read the clock
NowCalls(raws, n) == Cardinality({k \in 1..n : PubStruct(raws[k]) = NoTime})

\* The entries list built by the loop of lines 56-68.  Every reading of the
\* clock is one tick later than the reading before it.
ParseEntries(feed, now) ==
    [k \in 1..Len(feed.entries) |->
        LET raw == feed.entries[k]
        IN  [title    |-> raw.title,
             link     |-> raw.link,
             pub_date |-> convert_struct_time_to_datetime(
                              PubStruct(raw), now + NowCalls(feed.entries, k - 1)),
             summary  |-> raw.summary,
             journal  |-> feed.title,
             id       |-> IdOf(raw.id, raw.link),
             is_old   |-> FALSE]]

(***************************************************************************)
(* get_existing_items (get_RSS.py:75-104)                                  *)
(***************************************************************************)
\* What feedparser gives back for the document written by generate_rss_xml:
\* one entry per item, is_old set, journal taken from the author field.
get_existing_items_Parsed(doc, now) ==
    IF ~doc.exists THEN <<>>
    ELSE [k \in 1..Len(doc.items) |->
            LET item == doc.items[k]
            IN  [title    |-> item.title,
                 link     |-> item.link,
                 pub_date |-> convert_struct_time_to_datetime(item.pubDate, now),
                 summary  |-> item.description,
                 journal  |-> item.author,
                 id       |-> IdOf(item.guid, item.link),
                 is_old   |-> TRUE]]

\* the failure path returning what had been parsed before the failure
get_existing_items_KeepsParsed(doc, now, ok) == get_existing_items_Parsed(doc, now)

\* get_existing_items with its failure path: when reading or parsing the
\* document raises (ok = FALSE), the except clause returns the empty list
get_existing_items(doc, now, ok) ==
    IF ok THEN get_existing_items_Parsed(doc, now) ELSE <<>>

(***************************************************************************)
(* generate_rss_xml (get_RSS.py:123-162)                                   *)
(***************************************************************************)
\* no sorting: x goes to the end
InsertByDate_AtEnd(sorted, x) == Append(sorted, x)

\* an unstable sort: x goes before the items of its own age
RECURSIVE InsertByDate_BeforeEqual(_, _)
InsertByDate_BeforeEqual(sorted, x) ==
    IF sorted = <<>> THEN <<x>>
    ELSE IF Head(sorted).pub_date > x.pub_date
         THEN <<Head(sorted)>> \o InsertByDate_BeforeEqual(Tail(sorted), x)
         ELSE <<x>> \o sorted

\* Where list.sort(key=pub_date, reverse=True) puts x among already sorted
\* items: after every item whose pub_date is not smaller (the sort is stable)
RECURSIVE InsertByDate(_, _)
InsertByDate(sorted, x) ==
    IF sorted = <<>> THEN <<x>>
    ELSE IF Head(sorted).pub_date >= x.pub_date
         THEN <<Head(sorted)>> \o InsertByDate(Tail(sorted), x)
         ELSE <<x>> \o sorted

\* items.sort(key=lambda x: x['pub_date'], reverse=True)
RECURSIVE SortFrom(_, _, _)
SortFrom(items, k, acc) ==
    IF k > Len(items) THEN acc
    ELSE SortFrom(items, k + 1, InsertByDate(acc, items[k]))

SortNewestFirst(items) == SortFrom(items, 1, <<>>)

\* the slice taken one too long
Truncate_OneTooMany(items) ==
    SubSeq(items, 1, IF Len(items) < MAX_ITEMS + 1 THEN Len(items) ELSE MAX_ITEMS + 1)

\* items = items[:MAX_ITEMS]
Truncate(items) ==
    SubSeq(items, 1, IF Len(items) < MAX_ITEMS THEN Len(items) ELSE MAX_ITEMS)

\* "[journal] title"
Prefixed(journal, title) == <<"[">> \o journal \o <<"]", " ">> \o title

\* the prefix added whatever is_old says
DisplayTitle_AlwaysPrefixed(item) == Prefixed(item.journal, item.title)

\* the title of lines 136-139
DisplayTitle(item) ==
    IF ~item.is_old THEN Prefixed(item.journal, item.title) ELSE item.title

\* Item(...) of lines 141-148
RssItem(item) ==
    [title       |-> DisplayTitle(item),
     link        |-> item.link,
     description |-> item.summary,
     author      |-> item.journal,
     guid        |-> item.id,
     pubDate     |-> PubDateOf(item.pub_date)]

\* the items kept by generate_rss_xml, in document order
Retained(items) == Truncate(SortNewestFirst(items))

\* what generate_rss_xml(items) leaves in OUTPUT_FILE (lastBuildDate, the
\* only other part of the document that varies, is left out)
generate_rss_xml(items) ==
    LET kept == Retained(items)
    IN  [exists |-> TRUE, items |-> [k \in 1..Len(kept) |-> RssItem(kept[k])],
         complete |-> TRUE]

(***************************************************************************)
(* main, the body of the inner loop (get_RSS.py:185-195)                   *)
(***************************************************************************)
\* the loop body without the seen_ids test of line 187
TakeEntry_NoSeenTest(m, entry, qs) ==
    IF match_entry(entry, qs)
    THEN [all_entries |-> Append(m.all_entries, entry),
          seen_ids    |-> m.seen_ids \cup {entry.id},
          new_count   |-> m.new_count + 1]
    ELSE m

\* a matching entry whose identifier was accepted earlier in this run takes
\* the place of the one accepted before
TakeEntry_LastWins(m, entry, qs) ==
    IF ~match_entry(entry, qs) THEN m
    ELSE IF entry.id \in m.seen_ids
         THEN [m EXCEPT !.all_entries =
                   [k \in 1..Len(m.all_entries) |->
                       IF m.all_entries[k].id = entry.id /\ ~m.all_entries[k].is_old
                       THEN entry ELSE m.all_entries[k]]]
         ELSE [all_entries |-> Append(m.all_entries, entry),
               seen_ids    |-> m.seen_ids \cup {entry.id},
               new_count   |-> m.new_count + 1]

\* an accepted entry not counted
TakeEntry_NotCounted(m, entry, qs) ==
    IF entry.id \in m.seen_ids THEN m
    ELSE IF match_entry(entry, qs)
         THEN [all_entries |-> Append(m.all_entries, entry),
               seen_ids    |-> m.seen_ids \cup {entry.id},
               new_count   |-> m.new_count]
         ELSE m

\* a matching fetched entry takes the place of the entry with its
\* identifier, historical or not
TakeEntry_RefetchWins(m, entry, qs) ==
    IF ~match_entry(entry, qs) THEN m
    ELSE IF entry.id \in m.seen_ids
         THEN [m EXCEPT !.all_entries =
                   [k \in 1..Len(m.all_entries) |->
                       IF m.all_entries[k].id = entry.id
                       THEN entry ELSE m.all_entries[k]]]
         ELSE [all_entries |-> Append(m.all_entries, entry),
               seen_ids    |-> m.seen_ids \cup {entry.id},
               new_count   |-> m.new_count + 1]

\* m = [all_entries, seen_ids, new_count]; the result is m after `entry`
\* has been looked at
TakeEntry(m, entry, qs) ==
    IF entry.id \in m.seen_ids THEN m
    ELSE IF match_entry(entry, qs)
         THEN [all_entries |-> Append(m.all_entries, entry),
               seen_ids    |-> m.seen_ids \cup {entry.id},
               new_count   |-> m.new_count + 1]
         ELSE m

\* the merge started without the history
StartMerge_Empty(existing) ==
    [all_entries |-> <<>>,
     seen_ids    |-> {existing[k].id : k \in 1..Len(existing)},
     new_count   |-> 0]

\* lines 174-179
StartMerge(existing) ==
    [all_entries |-> existing,
     seen_ids    |-> {existing[k].id : k \in 1..Len(existing)},
     new_count   |-> 0]

(***************************************************************************)
(* A whole run as a function of what it reads: the loops of main and       *)
(* parse_rss, folded.  The actions below take the same steps one at a      *)
(* time.                                                                   *)
(***************************************************************************)
\* `for entry in fetched_entries` from position k on
RECURSIVE MergeFetched(_, _, _, _)
MergeFetched(m, entries, k, qs) ==
    IF k > Len(entries) THEN m
    ELSE MergeFetched(TakeEntry(m, entries[k], qs), entries, k + 1, qs)

\* parse_rss(url) entered at clock reading `now` with `att` attempts made,
\* when the first fl[url] attempts on url fail: the list returned and the
\* clock reading at return
ParseRss(url, att, rem, fl, now) ==
    LET fails == (IF fl[url] < RETRIES THEN fl[url] ELSE RETRIES) - att
        late == now + (IF fails > 0 THEN fails ELSE 0) * BACKOFF * TicksPerSecond
    IN  IF fl[url] >= RETRIES
        THEN [entries |-> <<>>, clock |-> late]
        ELSE [entries |-> ParseEntries(rem[url], late),
              clock   |-> late + NowCalls(rem[url].entries, Len(rem[url].entries))]

\* `for url in rss_urls` from position k on, the first parse_rss entered
\* with `att` attempts made
RECURSIVE MergeSources(_, _, _, _, _, _, _, _)
MergeSources(m, urls, k, att, qs, rem, fl, now) ==
    IF k > Len(urls) THEN m
    ELSE LET got == ParseRss(urls[k], att, rem, fl, now)
         IN  MergeSources(MergeFetched(m, got.entries, 1, qs),
                          urls, k + 1, 0, qs, rem, fl, got.clock)

\* the clock reading when that loop ends
RECURSIVE ClockAfter(_, _, _, _, _, _)
ClockAfter(urls, k, att, rem, fl, now) ==
    IF k > Len(urls) THEN now
    ELSE ClockAfter(urls, k + 1, 0, rem, fl, ParseRss(urls[k], att, rem, fl, now).clock)

\* main() started at clock reading `now` with `doc` in OUTPUT_FILE: the
\* document it leaves
RunOf(doc, urls, qs, rem, fl, now) ==
    IF urls = <<>> \/ qs = <<>> THEN doc
    ELSE generate_rss_xml(
             MergeSources(StartMerge(get_existing_items(doc, now, TRUE)),
                          urls, 1, 0, qs, rem, fl, now).all_entries)

(***************************************************************************)
(* The world around the program: the configured lists, the remote feeds,   *)
(* and which fetch attempts fail.                                          *)
(***************************************************************************)
Urls == {"u1", "u2", "u3"}

\* texts
tQc == <<"Q", "c">>
tQg == <<"Q", "g">>
sNone == <<>>
sN == <<"n">>

\* one entry as feedparser hands it to parse_rss
Raw(id, link, title, summary, published, updated) ==
    [id |-> id, link |-> link, title |-> title, summary |-> summary,
     published |-> published, updated |-> updated]

Feed(title, entries) == [title |-> title, entries |-> entries]

\* What each source may serve.  The choices cover: entries with and without
\* timestamps, an updated stamp standing in for a published one, equal
\* stamps in different sources, one identifier served by two sources with
\* different texts, an entry with no id (its link is used), entries that
\* match one query list and not the other.
FeedChoices(url) ==
    CASE url = "u1" ->
           { Feed(<<"N">>, << Raw("a", "la", tQc, sNone, 3, NoTime),
                              Raw("b", "lb", tQg, sN, 1, NoTime) >>),
             Feed(<<"N">>, << Raw("a", "la", tQc, sNone, NoTime, NoTime),
                              Raw("b", "lb", tQc, sN, NoTime, 1) >>),
             Feed(<<"N">>, << Raw("a", "la", tQg, sNone, 2, NoTime) >>) }
      [] url = "u2" ->
           { Feed(<<"S">>, << Raw("c", "lc", tQc, sNone, 3, NoTime) >>),
             Feed(<<"S">>, << Raw("a", "la", tQc, sN, 1, NoTime),
                              Raw(NoId, "ld", tQc, sNone, NoTime, NoTime) >>),
             Feed(<<"S">>, << Raw("c", "lc", tQc, sNone, 2, 3) >>) }
      [] OTHER ->
           { Feed(<<"P">>, << Raw("e", "le", tQc, sNone, 4, NoTime) >>),
             Feed(<<"P">>, << Raw("f", "lf", tQg, sN, NoTime, NoTime) >>) }

RemoteChoices == {r \in [Urls -> UNION {FeedChoices(x) : x \in Urls}] :
                      \A x \in Urls : r[x] \in FeedChoices(x)}

\* what load_config may return for journals.dat / RSS_JOURNALS
SourceLists == { <<>>, <<"u1", "u2">>, <<"u2", "u1", "u3">> }

\* what load_config may return for keywords.dat / RSS_KEYWORDS
QueryLists ==
    { <<>>,
      << <<"q", " ", "A", "N", "D", " ", "c">>, <<"n">> >>,
      << <<"G">> >> }

\* failing[url] = how many attempts on url fail before one succeeds, in the
\* run that is starting: all sources up, or one source failing once, or one
\* source failing on every attempt
FailureModes ==
    { [x \in Urls |-> 0] } \cup
    { [x \in Urls |-> IF x = d THEN n ELSE 0] : d \in Urls, n \in {1, RETRIES} }

(***************************************************************************)
(* State                                                                   *)
(***************************************************************************)
VARIABLES
    output_file,      \* OUTPUT_FILE: [exists, items, complete]
    readable,         \* whether the current run could read and parse it
    remote,           \* what each source serves
    failing,          \* the failing attempts of the current run, per source
    clock,            \* the clock datetime.now() reads, in ticks
    runs,             \* runs of main() started so far
    pc,               \* "idle", "fetch", "entries", "emit", "write", "done",
                      \* "killed"
    rss_urls,         \* main: rss_urls
    queries,          \* main: queries
    existing_entries, \* main: existing_entries
    seen_ids,         \* main: seen_ids
    all_entries,      \* main: all_entries
    new_count,        \* main: new_count
    u,                \* position of `for url in rss_urls`
    attempt,          \* parse_rss: attempt
    fetched_entries,  \* main: fetched_entries
    e                 \* position of `for entry in fetched_entries`

vars == <<output_file, readable, remote, failing, clock, runs, pc, rss_urls, queries,
          existing_entries, seen_ids, all_entries, new_count, u, attempt,
          fetched_entries, e>>

NoFile == [exists |-> FALSE, items |-> <<>>, complete |-> FALSE]

\* OUTPUT_FILE just after open(OUTPUT_FILE, "w"): there, and empty
Truncated == [exists |-> TRUE, items |-> <<>>, complete |-> FALSE]

\* Before the first run: no output document, the clock two seconds in.
Init ==
    /\ output_file = NoFile
    /\ readable = TRUE
    /\ remote \in RemoteChoices
    /\ failing = [x \in Urls |-> 0]
    /\ clock = 2 * TicksPerSecond
    /\ runs = 0
    /\ pc = "idle"
    /\ rss_urls = <<>>
    /\ queries = <<>>
    /\ existing_entries = <<>>
    /\ seen_ids = {}
    /\ all_entries = <<>>
    /\ new_count = 0
    /\ u = 1
    /\ attempt = 0
    /\ fetched_entries = <<>>
    /\ e = 1

\* the configuration check placed after the write: an empty document is
\* written before the run returns
MainAbort_WritesFirst(urls, qs) ==
    /\ pc \in {"idle", "done", "killed"}
    /\ runs < MaxRuns
    /\ urls = <<>> \/ qs = <<>>
    /\ runs' = runs + 1
    /\ clock' = clock + 1
    /\ rss_urls' = urls
    /\ queries' = qs
    /\ existing_entries' = <<>>
    /\ seen_ids' = {}
    /\ all_entries' = <<>>
    /\ new_count' = 0
    /\ u' = 1
    /\ attempt' = 0
    /\ fetched_entries' = <<>>
    /\ e' = 1
    /\ pc' = "done"
    /\ output_file' = generate_rss_xml(<<>>)
    /\ UNCHANGED <<readable, remote, failing>>

\* main, lines 166-171: a configuration list is empty, the run returns
MainAbort(urls, qs) ==
    /\ pc \in {"idle", "done", "killed"}
    /\ runs < MaxRuns
    /\ urls = <<>> \/ qs = <<>>
    /\ runs' = runs + 1
    /\ clock' = clock + 1
    /\ rss_urls' = urls
    /\ queries' = qs
    /\ existing_entries' = <<>>
    /\ seen_ids' = {}
    /\ all_entries' = <<>>
    /\ new_count' = 0
    /\ u' = 1
    /\ attempt' = 0
    /\ fetched_entries' = <<>>
    /\ e' = 1
    /\ pc' = "done"
    /\ UNCHANGED <<output_file, readable, remote, failing>>

\* main, lines 166-182: both lists non-empty, history loaded, merge started
MainStart(urls, qs, fl, ok) ==
    /\ pc \in {"idle", "done", "killed"}
    /\ runs < MaxRuns
    /\ urls # <<>> /\ qs # <<>>
    /\ ok \/ output_file.exists
    /\ readable' = ok
    /\ runs' = runs + 1
    /\ clock' = clock + 1
    /\ failing' = fl
    /\ rss_urls' = urls
    /\ queries' = qs
    /\ LET existing == get_existing_items(output_file, clock', ok)
           m == StartMerge(existing)
       IN  /\ existing_entries' = existing
           /\ seen_ids' = m.seen_ids
           /\ all_entries' = m.all_entries
           /\ new_count' = m.new_count
    /\ u' = 1
    /\ attempt' = 0
    /\ fetched_entries' = <<>>
    /\ e' = 1
    /\ pc' = "fetch"
    /\ UNCHANGED <<output_file, remote>>

\* the next attempt made at once
FetchFail_NoSleep ==
    /\ pc = "fetch"
    /\ attempt < RETRIES
    /\ attempt < failing[rss_urls[u]]
    /\ attempt' = attempt + 1
    /\ UNCHANGED <<output_file, readable, remote, failing, clock, runs, pc, rss_urls,
                   queries, existing_entries, seen_ids, all_entries, new_count, u,
                   fetched_entries, e>>

\* parse_rss, lines 50-52, 70-72: an attempt raises; sleep, next attempt
FetchFail ==
    /\ pc = "fetch"
    /\ attempt < RETRIES
    /\ attempt < failing[rss_urls[u]]
    /\ attempt' = attempt + 1
    /\ clock' = clock + BACKOFF * TicksPerSecond
    /\ UNCHANGED <<output_file, readable, remote, failing, runs, pc, rss_urls, queries,
                   existing_entries, seen_ids, all_entries, new_count, u,
                   fetched_entries, e>>

\* parse_rss, lines 50-69: an attempt succeeds and returns the entries
FetchOk ==
    /\ pc = "fetch"
    /\ attempt < RETRIES
    /\ attempt >= failing[rss_urls[u]]
    /\ LET feed == remote[rss_urls[u]]
       IN  /\ fetched_entries' = ParseEntries(feed, clock)
           /\ clock' = clock + NowCalls(feed.entries, Len(feed.entries))
    /\ e' = 1
    /\ pc' = "entries"
    /\ UNCHANGED <<output_file, readable, remote, failing, runs, rss_urls, queries,
                   existing_entries, seen_ids, all_entries, new_count, u, attempt>>

\* the failure of one source ending the loop over the sources
FetchGiveUp_EndsLoop ==
    /\ pc = "fetch"
    /\ attempt >= RETRIES
    /\ fetched_entries' = <<>>
    /\ e' = 1
    /\ pc' = "emit"
    /\ UNCHANGED <<output_file, readable, remote, failing, clock, runs, rss_urls, queries,
                   existing_entries, seen_ids, all_entries, new_count, u, attempt>>

\* the retry loop never giving up: after the last failed attempt the fetch
\* stays where it is
FetchGiveUp_Blocks ==
    /\ pc = "fetch"
    /\ attempt >= RETRIES
    /\ UNCHANGED vars

\* parse_rss, line 73: every attempt failed, return []
FetchGiveUp ==
    /\ pc = "fetch"
    /\ attempt >= RETRIES
    /\ fetched_entries' = <<>>
    /\ e' = 1
    /\ pc' = "entries"
    /\ UNCHANGED <<output_file, readable, remote, failing, clock, runs, rss_urls, queries,
                   existing_entries, seen_ids, all_entries, new_count, u, attempt>>

\* main, lines 185-195: one pass of the inner loop
ProcessEntry ==
    /\ pc = "entries"
    /\ e <= Len(fetched_entries)
    /\ LET m == TakeEntry([all_entries |-> all_entries, seen_ids |-> seen_ids,
                           new_count |-> new_count],
                          fetched_entries[e], queries)
       IN  /\ all_entries' = m.all_entries
           /\ seen_ids' = m.seen_ids
           /\ new_count' = m.new_count
    /\ e' = e + 1
    /\ UNCHANGED <<output_file, readable, remote, failing, clock, runs, pc, rss_urls,
                   queries, existing_entries, u, attempt, fetched_entries>>

\* main, line 183: the inner loop is over, on to the next url
NextUrl ==
    /\ pc = "entries"
    /\ e > Len(fetched_entries)
    /\ u < Len(rss_urls)
    /\ u' = u + 1
    /\ attempt' = 0
    /\ pc' = "fetch"
    /\ UNCHANGED <<output_file, readable, remote, failing, clock, runs, rss_urls, queries,
                   existing_entries, seen_ids, all_entries, new_count,
                   fetched_entries, e>>

\* main, lines 183, 197: the outer loop is over
LoopDone ==
    /\ pc = "entries"
    /\ e > Len(fetched_entries)
    /\ u >= Len(rss_urls)
    /\ pc' = "emit"
    /\ UNCHANGED <<output_file, readable, remote, failing, clock, runs, rss_urls, queries,
                   existing_entries, seen_ids, all_entries, new_count, u, attempt,
                   fetched_entries, e>>

\* main, line 200: generate_rss_xml(all_entries), up to line 161: items.sort
\* sorts the list main holds, the feed is built, and open(OUTPUT_FILE, "w")
\* creates the file or empties the one that is there
Emit ==
    /\ pc = "emit"
    /\ all_entries' = SortNewestFirst(all_entries)
    /\ output_file' = Truncated
    /\ pc' = "write"
    /\ UNCHANGED <<readable, remote, failing, clock, runs, rss_urls, queries,
                   existing_entries, seen_ids, new_count, u, attempt,
                   fetched_entries, e>>

\* generate_rss_xml, lines 161-162: f.write(feed.rss()) and the close of the
\* with block put the whole document in the file; main returns
WriteDone ==
    /\ pc = "write"
    /\ output_file' = generate_rss_xml(all_entries)
    /\ pc' = "done"
    /\ UNCHANGED <<readable, remote, failing, clock, runs, rss_urls, queries,
                   existing_entries, seen_ids, all_entries, new_count, u,
                   attempt, fetched_entries, e>>

\* The process is terminated between the open of line 161 and the end of the
\* write: the file holds some leading part of the new document, the rest of
\* it, and the whole of the previous document, are gone.
Kill ==
    /\ pc = "write"
    /\ \E n \in 0..Len(generate_rss_xml(all_entries).items) :
          output_file' = [exists |-> TRUE,
                          items |-> SubSeq(generate_rss_xml(all_entries).items, 1, n),
                          complete |-> FALSE]
    /\ pc' = "killed"
    /\ UNCHANGED <<readable, remote, failing, clock, runs, rss_urls, queries,
                   existing_entries, seen_ids, all_entries, new_count, u,
                   attempt, fetched_entries, e>>

Next ==
    \/ \E urls \in SourceLists, qs \in QueryLists : MainAbort(urls, qs)
    \/ \E urls \in SourceLists, qs \in QueryLists, fl \in FailureModes,
          ok \in BOOLEAN :
           MainStart(urls, qs, fl, ok)
    \/ FetchFail
    \/ FetchOk
    \/ FetchGiveUp
    \/ ProcessEntry
    \/ NextUrl
    \/ LoopDone
    \/ Emit
    \/ WriteDone
    \/ Kill

Spec == Init /\ [][Next]_vars

\* The steps of a run other than the passes of the inner loop.
OuterStep ==
    \/ FetchFail
    \/ FetchOk
    \/ FetchGiveUp
    \/ NextUrl
    \/ LoopDone
    \/ Emit
    \/ WriteDone

\* The steps of a run once main has passed the configuration check.
RunStep ==
    \/ OuterStep
    \/ ProcessEntry

\* The program left to run: nothing terminates the process.
NextRunning ==
    \/ \E urls \in SourceLists, qs \in QueryLists : MainAbort(urls, qs)
    \/ \E urls \in SourceLists, qs \in QueryLists, fl \in FailureModes,
          ok \in BOOLEAN :
           MainStart(urls, qs, fl, ok)
    \/ RunStep

\* A pass of the inner loop seen through the loop's position: the steps that
\* move e forward are the steps of ProcessEntry, and no others.
EntryAdvance ==
    /\ pc = "entries"
    /\ e <= Len(fetched_entries)
    /\ e' = e + 1

\* main is sequential code with no blocking call but time.sleep(2) and the
\* fetches, which return or raise: a started run keeps taking its next step,
\* in the inner loop as outside it.
FairSpec ==
    /\ Init
    /\ [][NextRunning]_vars
    /\ WF_vars(OuterStep)
    /\ WF_e(EntryAdvance)

(***************************************************************************)
(* The merge the current run will hand to generate_rss_xml, computed from  *)
(* the current position with the folded loops.  Every step of a run leaves *)
(* it unchanged: the actions and the fold are the same program.            *)
(***************************************************************************)
Merge == [all_entries |-> all_entries, seen_ids |-> seen_ids, new_count |-> new_count]

InRun == pc \in {"fetch", "entries", "emit"}

RestOfRun ==
    CASE pc = "fetch" ->
           MergeSources(Merge, rss_urls, u, attempt, queries, remote, failing, clock)
      [] pc = "entries" ->
           MergeSources(MergeFetched(Merge, fetched_entries, e, queries),
                        rss_urls, u + 1, 0, queries, remote, failing, clock)
      [] OTHER -> Merge

\* the document the current run will write
DocOfRun == generate_rss_xml(RestOfRun.all_entries)

\* the clock reading at which the current run loaded its history
StartClock ==
    CHOOSE c \in 0..clock :
        ClockAfter(rss_urls, 1, 0, remote, failing, c) =
            (IF InRun THEN ClockAfter(rss_urls, u + (IF pc = "fetch" THEN 0 ELSE 1),
                                      IF pc = "fetch" THEN attempt ELSE 0,
                                      remote, failing, clock)
             ELSE clock)

\* a finished run has written what the fold computes from what it read
RunIsFold ==
    (pc = "done" /\ rss_urls # <<>> /\ queries # <<>>) =>
        output_file = generate_rss_xml(
            MergeSources(StartMerge(existing_entries), rss_urls, 1, 0, queries,
                         remote, failing, StartClock).all_entries)

\* at every point of a run the fold from that point gives the same document
\* as the fold from the start
RestIsFold ==
    InRun =>
        DocOfRun = generate_rss_xml(
            MergeSources(StartMerge(existing_entries), rss_urls, 1, 0, queries,
                         remote, failing, StartClock).all_entries)

(***************************************************************************)
(* Helpers of the properties                                               *)
(***************************************************************************)
\* a run that passed the configuration check has written its document
Finished == pc = "done" /\ rss_urls # <<>> /\ queries # <<>>

IdsOf(entries) == {entries[k].id : k \in 1..Len(entries)}
GuidsOf(doc) == {doc.items[k].guid : k \in 1..Len(doc.items)}

DistinctIds(entries) ==
    \A i, j \in 1..Len(entries) : entries[i].id = entries[j].id => i = j

DistinctGuids(doc) ==
    \A i, j \in 1..Len(doc.items) : doc.items[i].guid = doc.items[j].guid => i = j

(***************************************************************************)
(* C1  Dedup invariant: at every point of every run the merged set         *)
(* (history plus the fresh entries accepted so far) has pairwise distinct  *)
(* identifiers, and so has every document written.                         *)
(***************************************************************************)
C1_DedupInvariant == DistinctIds(all_entries) /\ DistinctGuids(output_file)

\* a run with history has just skipped a fetched entry whose identifier was
\* already seen, after accepting a fresh one
C1_Witness ==
    /\ pc = "entries"
    /\ e > 1
    /\ existing_entries # <<>>
    /\ new_count > 0
    /\ \E k \in 1..Len(all_entries) :
          /\ all_entries[k].id = fetched_entries[e - 1].id
          /\ all_entries[k] # fetched_entries[e - 1]

(***************************************************************************)
(* C2  Window invariant: the document never holds more than MAX_ITEMS      *)
(* items; a finished run has kept min(MAX_ITEMS, candidates) of its        *)
(* candidates, and no candidate it dropped is strictly newer than one it   *)
(* kept.                                                                   *)
(***************************************************************************)
C2_WindowInvariant ==
    /\ Len(output_file.items) <= MAX_ITEMS
    /\ Finished =>
         /\ Len(output_file.items) =
              (IF Len(all_entries) < MAX_ITEMS THEN Len(all_entries) ELSE MAX_ITEMS)
         /\ GuidsOf(output_file) \subseteq IdsOf(all_entries)
         /\ \A i, j \in 1..Len(all_entries) :
               (/\ all_entries[i].id \notin GuidsOf(output_file)
                /\ all_entries[j].id \in GuidsOf(output_file))
               => all_entries[i].pub_date <= all_entries[j].pub_date

\* a finished run had more candidates than the window holds, among them
\* history, and the dropped ones differ in age
C2_Witness ==
    /\ Finished
    /\ Len(all_entries) > MAX_ITEMS
    /\ existing_entries # <<>>
    /\ \E i, j \in 1..Len(all_entries) :
          all_entries[i].pub_date < all_entries[j].pub_date

(***************************************************************************)
(* C3  Idempotence under no new data: after a finished run, a second run   *)
(* with the same source list, the same remote content, the same fetch      *)
(* outcomes and the same query list writes a document with the same items. *)
(***************************************************************************)
SecondRun == RunOf(output_file, rss_urls, queries, remote, failing, clock + 1)

C3_Idempotence == Finished => SecondRun.items = output_file.items

\* The second run differs from the first when the first truncated away an
\* entry that has no source timestamp: see C8.

(***************************************************************************)
(* Runs of main over one source that serves one entry, with a wider choice *)
(* of texts and query lists: the specification of the properties of        *)
(* match_entry.                                                            *)
(***************************************************************************)
MatchTitles ==
    { <<"Q", "c">>, <<"Q", "g">>, <<"q">>, <<"a", "n", "d">>, <<>> }

MatchSummaries ==
    { <<>>, <<"c">>, <<"n">>, <<"C", " ", "q">> }

MatchQueryLists ==
    { << <<"q", " ", "A", "N", "D", " ", "c">>, <<"n">> >>,
      << <<"q", "c">> >>,
      << <<"q", " ", "c">> >>,
      << <<"Q", " ", "A", "N", "D", " ", "g">> >>,
      << <<"c", " ", "q">>, <<"g", "A", "N", "D", "q">> >>,
      << <<"A", "N", "D">> >>,
      << <<"q", " ", "A", "N", "D", " ">> >>,
      << <<" ", "d", " ">> >>,
      << <<"a", "n", "d">>, <<"n", " ", "A", "N", "D", " ", "q", "A", "N", "D", "C">> >> }

InitMatch ==
    /\ output_file = NoFile
    /\ readable = TRUE
    /\ \E t \in MatchTitles, s \in MatchSummaries :
          remote = [x \in Urls |->
                      IF x = "u1"
                      THEN Feed(<<"N">>, << Raw("a", "la", t, s, 1, NoTime) >>)
                      ELSE Feed(<<"S">>, <<>>)]
    /\ failing = [x \in Urls |-> 0]
    /\ clock = 2 * TicksPerSecond
    /\ runs = 0
    /\ pc = "idle"
    /\ rss_urls = <<>>
    /\ queries = <<>>
    /\ existing_entries = <<>>
    /\ seen_ids = {}
    /\ all_entries = <<>>
    /\ new_count = 0
    /\ u = 1
    /\ attempt = 0
    /\ fetched_entries = <<>>
    /\ e = 1

NextMatch ==
    \/ \E qs \in MatchQueryLists : MainStart(<<"u1">>, qs, [x \in Urls |-> 0], TRUE)
    \/ FetchOk
    \/ ProcessEntry
    \/ LoopDone
    \/ Emit
    \/ WriteDone

SpecMatch == InitMatch /\ [][NextMatch]_vars

(***************************************************************************)
(* The matching rule, stated without the code's loops.                     *)
(***************************************************************************)
\* line[i..j] is one of the pieces the separator AND cuts the line into:
\* it is bounded by the ends of the line or by AND, and holds no AND
IsPiece(line, i, j) ==
    /\ i = 1 \/ (i > Len(AND_TOKEN) /\ SubSeq(line, i - Len(AND_TOKEN), i - 1) = AND_TOKEN)
    /\ j = Len(line) \/ (/\ j + Len(AND_TOKEN) <= Len(line)
                         /\ SubSeq(line, j + 1, j + Len(AND_TOKEN)) = AND_TOKEN)
    /\ \A k \in i..(j - Len(AND_TOKEN) + 1) :
          SubSeq(line, k, k + Len(AND_TOKEN) - 1) # AND_TOKEN

\* t is s without the blanks around it
IsTrimmed(s, t) ==
    /\ t = <<>> \/ (t[1] # " " /\ t[Len(t)] # " ")
    /\ \E a \in 0..Len(s) :
          /\ a + Len(t) <= Len(s)
          /\ SubSeq(s, a + 1, a + Len(t)) = t
          /\ \A k \in 1..Len(s) : (k <= a \/ k > a + Len(t)) => s[k] = " "

\* term occurs in text, letter case ignored
OccursIgnoringCase(term, text) ==
    \E a \in 0..(Len(text) - Len(term)) :
        \A k \in 1..Len(term) : LowerChar(text[a + k]) = LowerChar(term[k])

\* every term of the line occurs in the text
LineHolds(line, text) ==
    \A i \in 1..(Len(line) + 1), j \in 0..Len(line) :
        (i <= j + 1 /\ IsPiece(line, i, j)) =>
            \E n \in 0..(j - i + 1) : \E a \in i..(j + 1 - n) :
                /\ IsTrimmed(SubSeq(line, i, j), SubSeq(line, a, a + n - 1))
                /\ OccursIgnoringCase(SubSeq(line, a, a + n - 1), text)

SomeLineHolds(qs, text) == \E q \in 1..Len(qs) : LineHolds(qs[q], text)

\* title and summary joined by one blank, as match_entry joins them
SpacedText(entry) == entry.title \o <<" ">> \o entry.summary
\* title and summary joined directly
JoinedText(entry) == entry.title \o entry.summary

(***************************************************************************)
(* C4  Query semantics, as amended: match_entry returns true exactly when  *)
(* some query line has all of its AND-separated terms present, letter case *)
(* ignored, in the entry's title, one blank and its summary joined; and a  *)
(* fresh entry is in the merged set only if match_entry is true of it.     *)
(***************************************************************************)
C4_QuerySemantics ==
    /\ (pc = "entries" /\ e <= Len(fetched_entries)) =>
          (match_entry(fetched_entries[e], queries)
             <=> SomeLineHolds(queries, SpacedText(fetched_entries[e])))
    /\ \A k \in 1..Len(all_entries) :
          ~all_entries[k].is_old =>
              /\ match_entry(all_entries[k], queries)
              /\ SomeLineHolds(queries, SpacedText(all_entries[k]))

\* an entry has been accepted through a line of several terms that its text
\* matches only when letter case is ignored
C4_Witness ==
    /\ pc = "entries"
    /\ e = 2
    /\ new_count = 1
    /\ Len(queries) = 1
    /\ Len(Keywords(queries[1])) > 1
    /\ fetched_entries[1].title # Lower(fetched_entries[1].title)

\* C4 as claimed: the terms are looked for in the title joined directly with
\* the summary
C4_AsClaimed ==
    /\ (pc = "entries" /\ e <= Len(fetched_entries)) =>
          (match_entry(fetched_entries[e], queries)
             <=> SomeLineHolds(queries, JoinedText(fetched_entries[e])))
    /\ \A k \in 1..Len(all_entries) :
          ~all_entries[k].is_old =>
              /\ match_entry(all_entries[k], queries)
              /\ SomeLineHolds(queries, JoinedText(all_entries[k]))

(***************************************************************************)
(* C5  History round-trip: every item of the document carries the source   *)
(* name S of the feed that served it in its author field and the title     *)
(* "[S] T", T being the title that feed serves for it; the next run        *)
(* reloads it with source name S and title "[S] T", and a reloaded entry   *)
(* is emitted again with the same title.                                   *)
(***************************************************************************)
\* the entry was served as `raw` by the source named `journal`
ServedAs(id, journal, title) ==
    \E x \in Urls : \E i \in 1..Len(remote[x].entries) :
        /\ IdOf(remote[x].entries[i].id, remote[x].entries[i].link) = id
        /\ remote[x].title = journal
        /\ Prefixed(journal, remote[x].entries[i].title) = title

C5_HistoryRoundTrip ==
    /\ \A k \in 1..Len(output_file.items) :
          ServedAs(output_file.items[k].guid, output_file.items[k].author,
                   output_file.items[k].title)
    /\ \A k \in 1..Len(existing_entries) :
          /\ existing_entries[k].is_old
          /\ ServedAs(existing_entries[k].id, existing_entries[k].journal,
                      existing_entries[k].title)
    /\ Finished =>
          \A k \in 1..Len(existing_entries) :
             \A i \in 1..Len(output_file.items) :
                output_file.items[i].guid = existing_entries[k].id =>
                   /\ output_file.items[i].title = existing_entries[k].title
                   /\ output_file.items[i].author = existing_entries[k].journal

\* a run has written again an entry it had loaded from the document
C5_Witness ==
    /\ Finished
    /\ \E k \in 1..Len(existing_entries) :
          existing_entries[k].id \in GuidsOf(output_file)

(***************************************************************************)
(* C6  Skip-on-failure: when a configured source fails on every attempt,   *)
(* the merged set handed to the emitter is the one a run over the other    *)
(* configured sources alone builds (ingestion times aside); the failing    *)
(* source hands over no entry, and after it the run goes on to the next    *)
(* source or to emission.                                                  *)
(***************************************************************************)
Down == {x \in Urls : failing[x] >= RETRIES}

ConfiguredUp == SelectSeq(rss_urls, LAMBDA x : x \notin Down)

\* an entry without the time it was stamped with
Undated(entry) ==
    [title |-> entry.title, link |-> entry.link, summary |-> entry.summary,
     journal |-> entry.journal, id |-> entry.id, is_old |-> entry.is_old]

UndatedSeq(entries) == [k \in 1..Len(entries) |-> Undated(entries[k])]

C6_SkipOnFailure ==
    /\ pc = "emit" =>
          UndatedSeq(all_entries) =
             UndatedSeq(MergeSources(StartMerge(existing_entries), ConfiguredUp, 1, 0,
                                     queries, remote, failing, StartClock).all_entries)
    /\ (pc = "fetch" /\ rss_urls[u] \in Down) => ENABLED (FetchFail \/ FetchGiveUp)
    /\ (pc = "entries" /\ rss_urls[u] \in Down) =>
          /\ fetched_entries = <<>>
          /\ ENABLED (NextUrl \/ LoopDone)

\* a run reached emission with fresh entries although a configured source,
\* not the last one, failed on every attempt
C6_Witness ==
    /\ pc = "emit"
    /\ new_count > 0
    /\ \E k \in 1..(Len(rss_urls) - 1) : rss_urls[k] \in Down

(***************************************************************************)
(* C7  Fatal-on-empty-config: a step that leaves the source list or the    *)
(* query list empty leaves the output document as it was and starts no     *)
(* fetch.                                                                  *)
(***************************************************************************)
C7_FatalOnEmptyConfig ==
    [][(rss_urls' = <<>> \/ queries' = <<>>) =>
          /\ output_file' = output_file
          /\ pc' \in {"idle", "done"}
          /\ attempt' = 0
          /\ fetched_entries' = <<>>]_vars

\* a run with an empty list has returned while a document of an earlier run
\* exists
C7_Witness ==
    /\ pc = "done"
    /\ rss_urls = <<>> \/ queries = <<>>
    /\ output_file.exists
    /\ Len(output_file.items) > 0

(***************************************************************************)
(* C8  Permanent drop: an entry a finished run truncated out of the window *)
(* is not in the document of the next run, when that run has the same      *)
(* lists, the sources serve what they served before and the same fetches   *)
(* fail: the entry is fetched again and matches again.                     *)
(***************************************************************************)
DroppedIds == IdsOf(all_entries) \ GuidsOf(output_file)

C8_PermanentDrop == Finished => GuidsOf(SecondRun) \cap DroppedIds = {}

\* The code stamps an entry that has no source timestamp with the clock
\* reading of the run that fetches it (lines 43-44): truncated away by one
\* run, it is the newest candidate of the next.

(***************************************************************************)
(* C9  Source-order independence.                                          *)
(***************************************************************************)
\* a run has loaded its history and is about to fetch its first source
AtLoopStart == pc = "fetch" /\ u = 1 /\ attempt = 0

\* the sequences that list the elements of s in another order
Reorderings(s) ==
    {[k \in 1..Len(s) |-> s[f[k]]] : f \in Permutations(1..Len(s))}

\* the document of the current run, had its sources been listed as urls
DocWithOrder(urls) ==
    generate_rss_xml(MergeSources(Merge, urls, 1, 0, queries, remote, failing,
                                  clock).all_entries)

\* the raw entries the current run fetches: <<source, position>> pairs
Fetched ==
    {<<x, i>> \in Urls \X (1..2) :
        /\ \E k \in 1..Len(rss_urls) : rss_urls[k] = x
        /\ x \notin Down
        /\ i <= Len(remote[x].entries)}

RawAt(p) == remote[p[1]].entries[p[2]]
RawId(p) == IdOf(RawAt(p).id, RawAt(p).link)

\* no two freshly fetched entries share an identifier
FetchedIdsDistinct == \A p, q \in Fetched : RawId(p) = RawId(q) => p = q

\* the fetched entries that will be accepted
Accepted ==
    {p \in Fetched :
        /\ RawId(p) \notin seen_ids
        /\ match_entry(ParseEntries(remote[p[1]], 0)[p[2]], queries)}

\* every accepted entry carries a source timestamp, and two accepted
\* entries of different sources never carry the same one
AcceptedStampsApart ==
    /\ \A p \in Accepted : PubStruct(RawAt(p)) # NoTime
    /\ \A p, q \in Accepted :
          p[1] # q[1] => PubStruct(RawAt(p)) # PubStruct(RawAt(q))

\* C9 as claimed: with no identifier shared among the fetched entries, every
\* ordering of the source list gives the same document
C9_AsClaimed ==
    (AtLoopStart /\ FetchedIdsDistinct) =>
        \A urls \in Reorderings(rss_urls) : DocWithOrder(urls) = DocOfRun

\* C9 as amended: for a fixed history, query list and remote content in
\* which no two freshly fetched entries share an identifier, every accepted
\* fresh entry carries a source timestamp and no two accepted fresh entries
\* of different sources carry the same timestamp, every ordering of the
\* source list gives the same document
C9_SourceOrderIndependence ==
    (AtLoopStart /\ FetchedIdsDistinct /\ AcceptedStampsApart) =>
        \A urls \in Reorderings(rss_urls) : DocWithOrder(urls) = DocOfRun

\* a run with history is about to fetch sources of which two will have
\* entries accepted, under the conditions of C9 as amended
C9_Witness ==
    /\ AtLoopStart
    /\ FetchedIdsDistinct
    /\ AcceptedStampsApart
    /\ existing_entries # <<>>
    /\ \E p, q \in Accepted : p[1] # q[1]

(***************************************************************************)
(* C10  First-seen wins.                                                   *)
(***************************************************************************)
\* the entries the current run fetches, in iteration order, without the
\* time they were stamped with
RECURSIVE FetchedStream(_, _)
FetchedStream(urls, k) ==
    IF k > Len(urls) THEN <<>>
    ELSE UndatedSeq(ParseEntries(remote[urls[k]], 0)) \o FetchedStream(urls, k + 1)

Stream == FetchedStream(ConfiguredUp, 1)

\* positions of the stream whose identifier is not in history and is
\* carried by another position too
FreshDuplicate(i) ==
    /\ Stream[i].id \notin IdsOf(existing_entries)
    /\ \E j \in 1..Len(Stream) : j # i /\ Stream[j].id = Stream[i].id

Matches(i) == match_entry(Stream[i], queries)

KeptWithId(id) ==
    {k \in 1..Len(all_entries) : all_entries[k].id = id}

\* C10 as claimed: of the fetched entries sharing a fresh identifier, only
\* the first in iteration order can be in the merged set
C10_AsClaimed ==
    pc = "emit" =>
        \A i \in 1..Len(Stream) :
            FreshDuplicate(i) =>
                \A k \in KeptWithId(Stream[i].id) :
                    \A j \in 1..Len(Stream) :
                        (Stream[j].id = Stream[i].id
                           /\ Undated(all_entries[k]) = Stream[j])
                        => \A h \in 1..(j - 1) : Stream[h].id # Stream[i].id

\* C10 as amended: of the fetched entries sharing an identifier that is not
\* in history, the first in iteration order that matches the query list is
\* the one kept in the merged set; every other one is dropped, and the run
\* goes on to emission
C10_FirstSeenWins ==
    pc = "emit" =>
        \A i \in 1..Len(Stream) :
            (FreshDuplicate(i) /\ Matches(i)
               /\ \A h \in 1..(i - 1) : Stream[h].id = Stream[i].id => ~Matches(h))
            => /\ Cardinality(KeptWithId(Stream[i].id)) = 1
               /\ \A k \in KeptWithId(Stream[i].id) :
                     Undated(all_entries[k]) = Stream[i]

\* a run reached emission having fetched two matching entries that share a
\* fresh identifier and differ otherwise
C10_Witness ==
    /\ pc = "emit"
    /\ \E i, j \in 1..Len(Stream) :
          /\ i < j
          /\ FreshDuplicate(i)
          /\ Stream[j].id = Stream[i].id
          /\ Stream[j] # Stream[i]
          /\ Matches(i)
          /\ Matches(j)

(***************************************************************************)
(* C11  Bounded retry: a source is fetched at most RETRIES times in a run; *)
(* an attempt follows only a failed attempt on the same source, BACKOFF    *)
(* seconds later; after a successful attempt, or after RETRIES failed      *)
(* ones, which hand over no entry, the run goes on to the entries and then *)
(* to the next source.                                                     *)
(***************************************************************************)
C11_BoundedRetry ==
    [][/\ attempt' <= RETRIES
       /\ (pc = "fetch" /\ pc' = "fetch") =>
             /\ u' = u
             /\ attempt < RETRIES
             /\ attempt' = attempt + 1
             /\ clock' = clock + BACKOFF * TicksPerSecond
       /\ (pc = "fetch" /\ pc' # "fetch") =>
             /\ pc' = "entries"
             /\ attempt' = attempt
             /\ \/ attempt < RETRIES /\ attempt >= failing[rss_urls[u]]
                \/ attempt = RETRIES /\ fetched_entries' = <<>>
       /\ (pc = "entries" /\ pc' = "fetch") => (u' = u + 1 /\ attempt' = 0)]_vars

\* a second attempt on a source has succeeded and handed over entries
C11_Witness ==
    /\ pc = "entries"
    /\ attempt = 1
    /\ fetched_entries # <<>>


(***************************************************************************)
(* C12  History-read failure is non-fatal                                  *)
(***************************************************************************)
\* the history of the current run could not be loaded: OUTPUT_FILE was not
\* there, or reading or parsing it failed
HistoryUnavailable == ~readable \/ ~output_file.exists

\* the document a run started at StartClock with no OUTPUT_FILE leaves
EmptyHistoryRun == RunOf(NoFile, rss_urls, queries, remote, failing, StartClock)

\* C12: when the previous document is missing, or cannot be read or parsed,
\* the run goes on with an empty history, and the document it writes is the
\* one a run without any previous document would write.
C12_HistoryReadFailure ==
    /\ (InRun /\ HistoryUnavailable) => existing_entries = <<>>
    /\ (pc = "emit" /\ HistoryUnavailable) => DocOfRun = EmptyHistoryRun
    /\ (Finished /\ ~readable) => output_file = EmptyHistoryRun

\* a run finished, with entries, although the document before it, which had
\* items, could not be read
C12_Witness ==
    /\ pc = "emit"
    /\ ~readable
    /\ output_file.items # <<>>
    /\ all_entries # <<>>

(***************************************************************************)
(* C13  Run completion                                                     *)
(***************************************************************************)
\* the loop over rss_urls is over: the last source has been fetched or given
\* up, and its entries have all been handled
AllSourcesHandled ==
    /\ u = Len(rss_urls)
    /\ e = Len(fetched_entries) + 1

\* the step in which a run that passed the configuration check returns
RunReturns ==
    /\ pc # "done"
    /\ pc' = "done"
    /\ rss_urls' # <<>>
    /\ queries' # <<>>

\* C13: a run started with sources and queries comes to its end whatever
\* fetches fail and whether or not the history could be read; it writes the
\* document once, when it returns, and only after the loop over the sources
\* has handled every one of them, one after the other.
C13_RunCompletion ==
    /\ (pc = "fetch") ~> Finished
    /\ [](pc \in {"emit", "write"} => AllSourcesHandled)
    /\ [][/\ RunReturns =>
               /\ pc = "write"
               /\ output_file' = generate_rss_xml(all_entries)
          /\ (output_file' # output_file) => pc \in {"emit", "write"}
          /\ (output_file'.complete /\ output_file' # output_file) => RunReturns
          /\ (u' # u) => (u' = u + 1 \/ (pc \in {"idle", "done"} /\ u' = 1))]_vars

\* a run that could not read its history, and one of whose sources failed
\* every attempt, has returned
C13_Witness ==
    /\ Finished
    /\ ~readable
    /\ \E k \in 1..Len(rss_urls) : failing[rss_urls[k]] >= RETRIES

(***************************************************************************)
(* C14  Atomic replacement of the output document                          *)
(***************************************************************************)
\* C14: whenever OUTPUT_FILE is there, during a run or after the process was
\* terminated in the middle of one, it holds a complete document: the one
\* that was there before the run, or the one the run writes.
C14_AtomicReplacement == output_file.exists => output_file.complete

(***************************************************************************)
(* C15  Emission order                                                     *)
(***************************************************************************)
\* where an entry of the merge stands in all_entries: its insertion rank
InsertionRank(entry) == CHOOSE k \in 1..Len(all_entries) : all_entries[k] = entry

\* all_entries is the history as loaded, followed by entries fetched in this run
HistoryThenFresh ==
    /\ Len(existing_entries) <= Len(all_entries)
    /\ \A k \in 1..Len(all_entries) :
          IF k <= Len(existing_entries)
          THEN all_entries[k] = existing_entries[k] /\ all_entries[k].is_old
          ELSE ~all_entries[k].is_old

\* C15: the items of the document are those of the merge from the newest
\* pub_date to the oldest, and items of equal pub_date stand in the order in
\* which the merge received them: the history as loaded, then the fresh
\* entries as accepted.
C15_EmissionOrder ==
    /\ pc = "emit" =>
          LET kept == Retained(all_entries)
          IN  /\ HistoryThenFresh
              /\ \A i, j \in 1..Len(kept) :
                    i < j =>
                       /\ kept[i].pub_date >= kept[j].pub_date
                       /\ kept[i].pub_date = kept[j].pub_date =>
                             InsertionRank(kept[i]) < InsertionRank(kept[j])
              /\ DocOfRun.items = [k \in 1..Len(kept) |-> RssItem(kept[k])]
    /\ Finished =>
          \A i, j \in 1..Len(output_file.items) :
              i < j => output_file.items[i].pubDate >= output_file.items[j].pubDate

\* the document about to be written holds a history entry and, after it, a
\* fresh one of the same pub_date
C15_Witness ==
    /\ pc = "emit"
    /\ LET kept == Retained(all_entries)
       IN  \E i, j \in 1..Len(kept) :
               /\ i < j
               /\ kept[i].pub_date = kept[j].pub_date
               /\ kept[i].is_old
               /\ ~kept[j].is_old

(***************************************************************************)
(* C16  Aggregation loop invariant                                         *)
(***************************************************************************)
\* the entries of all_entries after the loaded history
FreshEntries == SubSeq(all_entries, Len(existing_entries) + 1, Len(all_entries))

\* C16: all through the loops of a run, seen_ids is the set of ids of the
\* entries of all_entries, all_entries is the loaded history followed by the
\* fresh entries accepted so far, and new_count is the number of these.
C16_LoopInvariant ==
    InRun =>
       /\ seen_ids = IdsOf(all_entries)
       /\ HistoryThenFresh
       /\ new_count = Len(FreshEntries)
       /\ Len(all_entries) = Len(existing_entries) + new_count
       /\ \A k \in 1..Len(FreshEntries) :
             /\ match_entry(FreshEntries[k], queries)
             /\ FreshEntries[k].id \notin IdsOf(existing_entries)

\* in the middle of the inner loop, with a history and a fresh entry accepted
C16_Witness ==
    /\ pc = "entries"
    /\ e <= Len(fetched_entries)
    /\ existing_entries # <<>>
    /\ new_count > 0

(***************************************************************************)
(* C17  Missing timestamp defaults to ingestion time                       *)
(***************************************************************************)
\* the feed behind fetched_entries, when the fetch of the current source
\* succeeded
FetchedFeed == remote[rss_urls[u]]

FetchSucceeded == attempt < RETRIES

\* the clock reading when the successful attempt began to build its entries
FetchClock == clock - NowCalls(FetchedFeed.entries, Len(FetchedFeed.entries))

\* the entry with some source timestamp in place of the one it has
Redated(entry) == [entry EXCEPT !.pub_date = 0]

\* C17: a fetched entry without published and updated timestamp is in
\* fetched_entries like the others, its pub_date is the reading of the clock
\* taken when it was parsed, within the current run, and it is then taken or
\* left by the id test and the queries exactly as if it had a timestamp.
C17_MissingTimestamp ==
    (pc = "entries" /\ FetchSucceeded) =>
       /\ Len(fetched_entries) = Len(FetchedFeed.entries)
       /\ \A k \in 1..Len(fetched_entries) :
             LET raw == FetchedFeed.entries[k]
                 entry == fetched_entries[k]
             IN  /\ entry.id = IdOf(raw.id, raw.link)
                 /\ PubStruct(raw) # NoTime =>
                       entry.pub_date = PubStruct(raw) * TicksPerSecond
                 /\ PubStruct(raw) = NoTime =>
                       /\ entry.pub_date = FetchClock + NowCalls(FetchedFeed.entries, k - 1)
                       /\ StartClock <= entry.pub_date
                       /\ entry.pub_date < clock
                       /\ k < e =>
                             (match_entry(entry, queries) => entry.id \in seen_ids)
                       /\ k = e =>
                             LET asIs == TakeEntry(Merge, entry, queries)
                                 dated == TakeEntry(Merge, Redated(entry), queries)
                             IN  /\ asIs.seen_ids = dated.seen_ids
                                 /\ asIs.new_count = dated.new_count
                                 /\ UndatedSeq(asIs.all_entries) =
                                       UndatedSeq(dated.all_entries)

\* an entry served without timestamp stands in all_entries with the clock
\* reading of its parse
C17_Witness ==
    /\ pc = "entries"
    /\ FetchSucceeded
    /\ \E k \in 1..Len(fetched_entries) :
          /\ k < e
          /\ PubStruct(FetchedFeed.entries[k]) = NoTime
          /\ \E i \in 1..Len(all_entries) : all_entries[i] = fetched_entries[k]

(***************************************************************************)
(* C18  History is never re-filtered                                       *)
(***************************************************************************)
\* entries of all_entries that the sort puts nowhere after `entry`
NotAfter(entry) ==
    {k \in 1..Len(all_entries) : all_entries[k].pub_date >= entry.pub_date}

\* C18: every entry loaded from the previous document is in all_entries
\* whatever the queries of the current run are, and it is missing from the
\* document written only if MAX_ITEMS entries at least stand before it.
C18_HistoryNotRefiltered ==
    /\ (pc = "emit" /\ readable) =>
          existing_entries = get_existing_items(output_file, clock, TRUE)
    /\ InRun =>
          \A k \in 1..Len(existing_entries) :
              /\ k <= Len(all_entries)
              /\ all_entries[k] = existing_entries[k]
    /\ Finished =>
          \A k \in 1..Len(existing_entries) :
              \/ \E i \in 1..Len(output_file.items) :
                    output_file.items[i] = RssItem(existing_entries[k])
              \/ /\ Len(all_entries) > MAX_ITEMS
                 /\ Cardinality(NotAfter(existing_entries[k])) > MAX_ITEMS

\* a run has written a document that still holds a loaded entry none of its
\* queries matches
C18_Witness ==
    /\ Finished
    /\ \E k \in 1..Len(existing_entries) :
          /\ ~match_entry(existing_entries[k], queries)
          /\ existing_entries[k].id \in GuidsOf(output_file)

(***************************************************************************)
(* C19  History wins over re-fetch                                         *)
(***************************************************************************)
\* every item of document `before` whose guid is still in document `after`
\* is in it as it was: title, link, description, author, guid and pubDate
ItemsUnchanged(before, after) ==
    \A i \in 1..Len(before.items) :
        before.items[i].guid \in GuidsOf(after) =>
            \E j \in 1..Len(after.items) : after.items[j] = before.items[i]

\* a configured source that answers serves the id of `item` with another
\* title, summary or timestamp, or under another feed title
ServedChanged(item) ==
    \E p \in Fetched :
        /\ RawId(p) = item.guid
        /\ \/ Prefixed(remote[p[1]].title, RawAt(p).title) # item.title
           \/ RawAt(p).summary # item.description
           \/ remote[p[1]].title # item.author
           \/ PubStruct(RawAt(p)) # item.pubDate

\* C19: a fetched entry whose id is in the loaded history is left out and
\* the loaded entry stays as it is, so an item that is in the document before
\* a run and in the document after it is the same item in both, whatever the
\* sources serve under its id in that run.
C19_HistoryWins ==
    /\ (pc = "entries" /\ e <= Len(fetched_entries)
          /\ fetched_entries[e].id \in IdsOf(existing_entries)) =>
             TakeEntry(Merge, fetched_entries[e], queries) = Merge
    /\ (pc = "emit" /\ readable) => ItemsUnchanged(output_file, DocOfRun)
    /\ Finished =>
          \A rem \in RemoteChoices :
              ItemsUnchanged(output_file,
                  RunOf(output_file, rss_urls, queries, rem, failing, clock + 1))

\* a run is about to write a document that keeps an item of the previous
\* one although a source it fetched served that id changed
C19_Witness ==
    /\ pc = "emit"
    /\ readable
    /\ \E i \in 1..Len(output_file.items) :
          /\ output_file.items[i].guid \in GuidsOf(DocOfRun)
          /\ ServedChanged(output_file.items[i])
====
